---- MODULE Spec2Model ----
(***************************************************************************)
(* State-machine model of the WebIDL acquisition-and-reconciliation code:  *)
(*   src/unnamed/part_000 lines 89-428  (the idl URL importer: importHTTP, *)
(*                                       importIDL and their helpers)      *)
(* The scraper behind seleniumManager.scrape is not part of the sources    *)
(* and is modelled from its specification.                                 *)
(*                                                                         *)
(* JavaScript strings are modelled as sequences of one-character strings,  *)
(* so that the character-level functions (the scheme pattern, the cache    *)
(* file name, the string order used for sorting) are computed as the code  *)
(* computes them.                                                          *)
(***************************************************************************)
EXTENDS Naturals, Sequences, FiniteSets

(***************************************************************************)
(* Bounds of the model.                                                    *)
(***************************************************************************)
\* Largest number of fragments one piece of scraped content parses to.
MaxFrag == 2

(***************************************************************************)
(* Characters and strings.                                                 *)
(***************************************************************************)
\* UTF-16 code units of the characters the model's URLs are written with.
Code(c) ==
  CASE c = "-" -> 45
    [] c = "/" -> 47
    [] c = ":" -> 58
    [] c = "_" -> 95
    [] c = "a" -> 97
    [] c = "b" -> 98
    [] c = "f" -> 102
    [] c = "h" -> 104
    [] c = "p" -> 112
    [] c = "s" -> 115
    [] c = "t" -> 116

\* The character class [a-zA-Z0-9] of getCacheFileName's pattern.
IsAlnum(c) ==
  \/ (Code(c) >= 48 /\ Code(c) <= 57)
  \/ (Code(c) >= 65 /\ Code(c) <= 90)
  \/ (Code(c) >= 97 /\ Code(c) <= 122)

\* a < b on JavaScript strings: lexicographic on code units, a proper prefix
\* being smaller.
RECURSIVE StrLessFrom(_, _, _)
StrLessFrom(a, b, i) ==
  IF i > Len(b) THEN FALSE
  ELSE IF i > Len(a) THEN TRUE
  ELSE IF Code(a[i]) < Code(b[i]) THEN TRUE
  ELSE IF Code(a[i]) > Code(b[i]) THEN FALSE
  ELSE StrLessFrom(a, b, i + 1)

StrLess(a, b) == StrLessFrom(a, b, 1)

\* s.startsWith(p)
StartsWith(s, p) ==
  /\ Len(p) <= Len(s)
  /\ SubSeq(s, 1, Len(p)) = p

\* The tail of s after its first n characters.
Drop(s, n) == SubSeq(s, n + 1, Len(s))

Http == <<"h", "t", "t", "p">>
Https == <<"h", "t", "t", "p", "s">>
SchemeSep == <<":", "/", "/">>

\* The URLs the model's inputs and files are written with.
\*   UrlA  = "https://a-b"   UrlX = "https://a/"   UrlB = "https://a_b"
\*   UrlXh = "http://a"      UrlBad = "ftp://a"
\* UrlA < UrlX < UrlB in string order; UrlA and UrlB differ only in a
\* non-alphanumeric character.
UrlA == Https \o SchemeSep \o <<"a", "-", "b">>
UrlX == Https \o SchemeSep \o <<"a", "/">>
UrlB == Https \o SchemeSep \o <<"a", "_", "b">>
UrlXh == Http \o SchemeSep \o <<"a">>
UrlBad == <<"f", "t", "p">> \o SchemeSep \o <<"a">>

(***************************************************************************)
(* part_000: getCacheFileName, urlSort, getUniqueURLs.                     *)
(***************************************************************************)
\* url.replace(/[^a-zA-Z0-9]/g, '_')
getCacheFileName(url) ==
  [i \in 1..Len(url) |-> IF IsAlnum(url[i]) THEN url[i] ELSE "_"]

\* The pattern with one slash after the colon.
MatchURLOneSlash(url) ==
  IF StartsWith(url, Https \o <<":", "/">>)
    THEN [ok |-> TRUE, scheme |-> Https, rest |-> Drop(url, Len(Https) + 2)]
  ELSE IF StartsWith(url, Http \o <<":", "/">>)
    THEN [ok |-> TRUE, scheme |-> Http, rest |-> Drop(url, Len(Http) + 2)]
  ELSE [ok |-> FALSE, scheme |-> <<>>, rest |-> <<>>]

\* url.match(/^(https?):\/\/(.*)$/): the scheme and the rest, or no match.
MatchURL(url) ==
  IF StartsWith(url, Https \o SchemeSep)
    THEN [ok |-> TRUE, scheme |-> Https, rest |-> Drop(url, Len(Https) + 3)]
  ELSE IF StartsWith(url, Http \o SchemeSep)
    THEN [ok |-> TRUE, scheme |-> Http, rest |-> Drop(url, Len(Http) + 3)]
  ELSE [ok |-> FALSE, scheme |-> <<>>, rest |-> <<>>]

\* Insertion of string x into the sorted list of strings s (Array.sort on
\* strings, default comparator).
RECURSIVE InsertStr(_, _)
InsertStr(s, x) ==
  IF s = <<>> THEN <<x>>
  ELSE IF StrLess(x, Head(s)) THEN <<x>> \o s
  ELSE <<Head(s)>> \o InsertStr(Tail(s), x)

RECURSIVE SortStrs(_)
SortStrs(s) ==
  IF s = <<>> THEN <<>> ELSE InsertStr(SortStrs(SubSeq(s, 1, Len(s) - 1)), s[Len(s)])

\* Whether x is an element of the list s.
InSeq(s, x) == \E i \in 1..Len(s) : s[i] = x

\* _.uniq: the first occurrence of every element, in order.
RECURSIVE Uniq(_)
Uniq(s) ==
  IF s = <<>> THEN <<>>
  ELSE LET init == Uniq(SubSeq(s, 1, Len(s) - 1))
           x == s[Len(s)]
       IN  IF InSeq(init, x) THEN init ELSE Append(init, x)

\* A JavaScript object with string keys is modelled as the list of its
\* <<key, value>> entries in insertion order (the order of
\* Object.getOwnPropertyNames and Object.keys for keys that are not array
\* indices; no key of the model is one).
HasKey(m, k) == \E i \in 1..Len(m) : m[i][1] = k
IndexOfKey(m, k) == CHOOSE i \in 1..Len(m) : m[i][1] = k
Get(m, k) == m[IndexOfKey(m, k)][2]
Put(m, k, v) ==
  IF HasKey(m, k) THEN [m EXCEPT ![IndexOfKey(m, k)] = <<k, v>>]
  ELSE Append(m, <<k, v>>)
RECURSIVE Delete(_, _)
Delete(m, k) ==
  IF m = <<>> THEN <<>>
  ELSE IF Head(m)[1] = k THEN Tail(m)
  ELSE <<Head(m)>> \o Delete(Tail(m), k)
Keys(m) == [i \in 1..Len(m) |-> m[i][1]]

\* First loop of getUniqueURLs (lines 136-147): urlMap[rest] is the sorted list
\* of the schemes seen for rest. A URL that does not match the pattern makes
\* the function throw (match[2] of null).
RECURSIVE CollectSchemes(_, _)
CollectSchemes(urls, urlMap) ==
  IF urls = <<>> THEN [threw |-> FALSE, urlMap |-> urlMap]
  ELSE LET match == MatchURL(Head(urls))
           key == match.rest
           old == IF HasKey(urlMap, key) THEN Get(urlMap, key) ELSE <<>>
           new == IF InSeq(old, match.scheme) THEN old
                  ELSE SortStrs(Append(old, match.scheme))
       IN  IF ~match.ok THEN [threw |-> TRUE, urlMap |-> urlMap]
           ELSE CollectSchemes(Tail(urls), Put(urlMap, key, new))

\* Second loop (lines 148-155), over the property names as they were before the
\* loop: an entry whose slash-terminated twin exists is merged into the twin
\* and deleted.
RECURSIVE MergeSlash(_, _)
MergeSlash(names, urlMap) ==
  IF names = <<>> THEN urlMap
  ELSE LET url == Head(names)
           twin == Append(url, "/")
       IN  IF HasKey(urlMap, twin)
             THEN MergeSlash(Tail(names),
                    Delete(Put(urlMap, twin,
                               SortStrs(Uniq(Get(urlMap, twin) \o Get(urlMap, url)))),
                           url))
             ELSE MergeSlash(Tail(names), urlMap)

\* getUniqueURLs(urls): [threw, urls].
getUniqueURLs(urls) ==
  LET c == CollectSchemes(urls, <<>>)
      m == MergeSlash(Keys(c.urlMap), c.urlMap)
  IN  IF c.threw THEN [threw |-> TRUE, urls |-> <<>>]
      ELSE [threw |-> FALSE,
            urls |-> [i \in 1..Len(m) |->
                        LET schemes == m[i][2]
                        IN  schemes[Len(schemes)] \o SchemeSep \o m[i][1]]]

\* urlSort(a, b) < 0, = 0, > 0 as "lt", "eq", "gt".
urlSort(a, b) ==
  IF StrLess(a.url, b.url) THEN "lt"
  ELSE IF StrLess(b.url, a.url) THEN "gt"
  ELSE "eq"

\* Array.prototype.sort(urlSort): a stable sort (records that compare equal keep
\* their order).
RECURSIVE InsertByUrl(_, _)
InsertByUrl(s, x) ==
  IF s = <<>> THEN <<x>>
  ELSE IF urlSort(x, Head(s)) = "lt" THEN <<x>> \o s
  ELSE <<Head(s)>> \o InsertByUrl(Tail(s), x)

RECURSIVE SortByUrl(_)
SortByUrl(s) ==
  IF s = <<>> THEN <<>>
  ELSE InsertByUrl(SortByUrl(SubSeq(s, 1, Len(s) - 1)), s[Len(s)])

(***************************************************************************)
(* Values: fragments, content, records, files.                             *)
(***************************************************************************)
\* A parse fragment is opaque; fragments are numbered.
Frags(n) == [i \in 1..n |-> i]

\* One string of scraped content, carrying the result the external grammar
\* parser (webidl2-js parser.parseString) gives for it: res[0], res[1].
NotIdl == [ok |-> FALSE, frags |-> <<>>]
Idl(n) == [ok |-> TRUE, frags |-> Frags(n)]
parseString(idl) == <<idl.ok, idl.frags>>

\* What a page load can deliver: a list of content strings.
PageContents ==
  {<<NotIdl>>}
    \cup {<<Idl(n)>> : n \in 1..MaxFrag}
    \cup {<<Idl(1), NotIdl, Idl(n - 1)>> : n \in 2..MaxFrag}

\* What an HTTP response body can be: one buffer.
BodyContents == {NotIdl} \cup {Idl(n) : n \in 1..MaxFrag}

\* The data handed to parse: an array of strings, or one value that is not an
\* array (carried as the only element of v).
ArrayData(c) == [array |-> TRUE, v |-> c]
BareData(b) == [array |-> FALSE, v |-> <<b>>]

\* {url, parses}
Rec(url, parses) == [url |-> url, parses |-> parses]

\* A file: absent, present with bytes that are not valid JSON, or present with
\* the serialization of a value. stringify followed by JSON.parse gives back
\* arrays, strings and objects as they were, so a serialized value is carried
\* as the value.
NoFile == [kind |-> "none", value |-> <<>>]
Garbage == [kind |-> "garbage", value |-> <<>>]
stringify(v) == [kind |-> "json", value |-> v]
RawFile(data) == [kind |-> "raw", value |-> data]

\* The names the cache directories can hold files under.
CacheNames == {getCacheFileName(u) : u \in {UrlA, UrlX, UrlB, UrlXh}}

EmptyDir == [n \in CacheNames |-> NoFile]

(***************************************************************************)
(* part_000: clearCache, parse, loadURL; the scraper behind               *)
(* seleniumManager.scrape.                                                 *)
(***************************************************************************)
\* clearCache(url) on one directory: unlink, ignoring a missing file.
Unlink(dir, url) == [dir EXCEPT ![getCacheFileName(url)] = NoFile]

\* clearCache without its second unlink.
clearCacheIdlKept(idlCacheDir, url) == idlCacheDir

clearCacheUrl(urlCacheDir, url) == Unlink(urlCacheDir, url)
clearCacheIdl(idlCacheDir, url) == Unlink(idlCacheDir, url)

RECURSIVE clearCacheAll(_, _, _)
clearCacheAll(urlCacheDir, idlCacheDir, retry) ==
  IF retry = <<>> THEN [url |-> urlCacheDir, idl |-> idlCacheDir]
  ELSE clearCacheAll(clearCacheUrl(urlCacheDir, Head(retry)),
                     clearCacheIdl(idlCacheDir, Head(retry)),
                     Tail(retry))

\* The loop of parse (lines 219-239): the fragments of every string that the
\* parser accepts, concatenated.
RECURSIVE ParseLoop(_, _)
ParseLoop(data, parses) ==
  IF data = <<>> THEN parses
  ELSE LET res == parseString(Head(data))
       IN  ParseLoop(Tail(data), IF res[1] THEN parses \o res[2] ELSE parses)

\* parse writing the record before it looks at the number of fragments.
parseWritesAlways(url, data, idlCacheDir) ==
  LET name == getCacheFileName(url)
      parses == ParseLoop(data.v, <<>>)
  IN  IF idlCacheDir[name].kind = "json"
        THEN [threw |-> FALSE, rec |-> idlCacheDir[name].value,
              idl |-> idlCacheDir, cached |-> TRUE]
      ELSE [threw |-> Len(parses) = 0, rec |-> Rec(url, parses),
            idl |-> [idlCacheDir EXCEPT ![name] = stringify(Rec(url, parses))],
            cached |-> FALSE]

\* parse without the catch around the read of the cache file: a file that is
\* not valid JSON makes it throw.
parseNoRecover(url, data, idlCacheDir) ==
  LET name == getCacheFileName(url)
      parses == ParseLoop(data.v, <<>>)
  IN  IF idlCacheDir[name].kind = "json"
        THEN [threw |-> FALSE, rec |-> idlCacheDir[name].value,
              idl |-> idlCacheDir, cached |-> TRUE]
      ELSE IF Len(parses) = 0 \/ idlCacheDir[name].kind = "garbage"
        THEN [threw |-> TRUE, rec |-> Rec(url, <<>>),
              idl |-> idlCacheDir, cached |-> FALSE]
      ELSE [threw |-> FALSE, rec |-> Rec(url, parses),
            idl |-> [idlCacheDir EXCEPT ![name] = stringify(Rec(url, parses))],
            cached |-> FALSE]

\* parse({url, data}) (lines 209-249) against the parse-record directory:
\* [threw, rec, idl, cached]. A readable cache file is returned as it is; a
\* missing or unreadable one leads to a fresh parse, which throws on zero
\* fragments and otherwise writes the record.
parse(url, data, idlCacheDir) ==
  LET name == getCacheFileName(url)
      parses == ParseLoop(data.v, <<>>)
  IN  IF idlCacheDir[name].kind = "json"
        THEN [threw |-> FALSE, rec |-> idlCacheDir[name].value,
              idl |-> idlCacheDir, cached |-> TRUE]
      ELSE IF Len(parses) = 0
        THEN [threw |-> TRUE, rec |-> Rec(url, <<>>),
              idl |-> idlCacheDir, cached |-> FALSE]
      ELSE [threw |-> FALSE, rec |-> Rec(url, parses),
            idl |-> [idlCacheDir EXCEPT ![name] = stringify(Rec(url, parses))],
            cached |-> FALSE]

\* Caught with the catch attached before parse instead of after it: a rejected
\* fetch still reaches parse, whose cached record is returned.
CaughtBeforeParse(url, failed, rec) == rec

\* The value one job resolves with (scrapeURLs lines 285-293, importIDL lines
\* 415-418): the record parse returned, or {url, parses: []} from the catch
\* when the fetch was rejected or parse threw.
Caught(url, failed, rec) == IF failed THEN Rec(url, <<>>) ELSE rec

\* What a fetch can end with: a failure, or content.
Failure == [ok |-> FALSE, data |-> ArrayData(<<>>)]
Fetched(data) == [ok |-> TRUE, data |-> data]

\* The bytes of a file that holds a page, taken as one string: the
\* serialization of the page's list of content strings, which the grammar
\* parser does not accept.
PageBytes(c) == [ok |-> FALSE, frags |-> <<>>, page |-> c]

\* fs.readFileSync(path) (line 181): one Buffer with the bytes of the file,
\* never an array. A file that holds a response body gives the body back; a
\* file that holds a page gives the bytes of the whole page.
readFileSync(file) ==
  IF file.value.array THEN BareData(PageBytes(file.value.v)) ELSE file.value

\* The jobs of list for which loadURL sends a request: fs.statSync (line 178)
\* throws for those that have no file in the raw-bytes directory when
\* loadURL is called.
Requested(list, urlCacheDir) ==
  {i \in 1..Len(list) : urlCacheDir[getCacheFileName(list[i])].kind # "raw"}

\* loadURL(url) (lines 173-207) against the raw-bytes directory: [ok, data,
\* dir, cached]. sent tells whether the lookup at the call found no file and
\* a request was sent, net being what that request ends with: a failure
\* rejects, a response is written to the file, whatever it holds by then, and
\* resolves. With a file found at the call, its bytes resolve. loadURL
\* names the directory ./.urlcache; the process is taken to run in the
\* module's directory, where this is urlCacheDir.
loadURL(url, sent, net, urlCacheDir) ==
  LET name == getCacheFileName(url)
  IN  IF ~sent
        THEN [ok |-> TRUE, data |-> readFileSync(urlCacheDir[name]),
              dir |-> urlCacheDir, cached |-> TRUE]
      ELSE IF ~net.ok
        THEN [ok |-> FALSE, data |-> net.data, dir |-> urlCacheDir, cached |-> FALSE]
      ELSE [ok |-> TRUE, data |-> net.data,
            dir |-> [urlCacheDir EXCEPT ![name] = RawFile(net.data)],
            cached |-> FALSE]

\* ScraperManager.scrape(url) with the Scraper given urlCacheDir: the job is
\* rejected when the browser session fails; otherwise it resolves with the
\* cached bytes when the raw-bytes directory holds them, and with the loaded
\* page, which it stores, when not.
scrape(url, net, urlCacheDir) ==
  LET name == getCacheFileName(url)
  IN  IF ~net.ok
        THEN [ok |-> FALSE, data |-> net.data, dir |-> urlCacheDir, cached |-> FALSE]
      ELSE IF urlCacheDir[name].kind = "raw"
        THEN [ok |-> TRUE, data |-> urlCacheDir[name].value,
              dir |-> urlCacheDir, cached |-> TRUE]
      ELSE [ok |-> TRUE, data |-> net.data,
            dir |-> [urlCacheDir EXCEPT ![name] = RawFile(net.data)],
            cached |-> FALSE]

(***************************************************************************)
(* part_000: the reconciliation of importHTTP.                             *)
(***************************************************************************)
\* list.filter(d => d.url === url)
RECURSIVE FilterByUrl(_, _)
FilterByUrl(list, url) ==
  IF list = <<>> THEN <<>>
  ELSE IF Head(list).url = url THEN <<Head(list)>> \o FilterByUrl(Tail(list), url)
  ELSE FilterByUrl(Tail(list), url)

\* list.filter(d => d.url === url)[0], as a list of no element (undefined) or
\* one.
FirstByUrl(list, url) ==
  LET f == FilterByUrl(list, url) IN IF f = <<>> THEN <<>> ELSE <<f[1]>>

\* NeedsRetry with <= for < in the comparison of the counts.
NeedsRetryOnEqual(prevDatum, allData) ==
  LET datum == FirstByUrl(allData, prevDatum.url)
  IN  \/ (datum = <<>> /\ Len(prevDatum.parses) > 0)
      \/ (datum # <<>> /\ Len(datum[1].parses) <= Len(prevDatum.parses))

\* Whether one prior record marks its URL for retry (lines 316-324).
NeedsRetry(prevDatum, allData) ==
  LET datum == FirstByUrl(allData, prevDatum.url)
  IN  \/ (datum = <<>> /\ Len(prevDatum.parses) > 0)
      \/ (datum # <<>> /\ Len(datum[1].parses) < Len(prevDatum.parses))

\* The retry marking (lines 313-326): prevData is <<>> for null.
RECURSIVE MarkRetry(_, _)
MarkRetry(prevData, allData) ==
  IF prevData = <<>> THEN <<>>
  ELSE (IF NeedsRetry(Head(prevData), allData) THEN <<Head(prevData).url>> ELSE <<>>)
         \o MarkRetry(Tail(prevData), allData)

\* The second pass handed urls instead of retryURLs.
SecondPassAllURLs(urls, retryURLs) == urls

\* The URLs the second pass scrapes (line 338).
SecondPassURLs(urls, retryURLs) == retryURLs

\* Lines 342 and 343: both read allData; the second-pass data is not read.
firstDatum(allData, data, url) == FirstByUrl(allData, url)
secondDatum(allData, data, url) == FirstByUrl(allData, url)

\* allData.push(d); allData = allData.sort(urlSort)
PushSorted(allData, d) == SortByUrl(Append(allData, d))

\* ReconcileOne storing the second datum whenever its count is not below the
\* first one's.
ReconcileOneStoreOnEqual(allData, data, prevData, url) ==
  LET first == FirstByUrl(allData, url)
      second == FirstByUrl(allData, url)
  IN  IF second = <<>> THEN [threw |-> TRUE, allData |-> allData]
      ELSE IF first = <<>> \/ Len(second[1].parses) >= Len(first[1].parses)
        THEN [threw |-> FALSE, allData |-> SortByUrl(Append(allData, second[1]))]
      ELSE [threw |-> FALSE, allData |-> allData]

\* One iteration of the loop over retryURLs (lines 341-398): [threw, allData].
\* Line 347 reads prevDatum, which no enclosing scope declares: evaluating the
\* log message throws a ReferenceError.
ReconcileOne(allData, data, prevData, url) ==
  LET first == firstDatum(allData, data, url)
      second == secondDatum(allData, data, url)
      prevDatum == FirstByUrl(prevData, url)
      keep == [threw |-> FALSE, allData |-> allData]
      store == [threw |-> FALSE, allData |-> PushSorted(allData, second[1])]
      nFirst == Len(first[1].parses)
      nSecond == Len(second[1].parses)
      nPrev == Len(prevDatum[1].parses)
  IN  IF second = <<>> THEN [threw |-> TRUE, allData |-> allData]
      ELSE IF first = <<>> THEN store
      ELSE IF nSecond < nFirst THEN keep
      ELSE IF nSecond = nFirst THEN keep
      ELSE IF prevDatum = <<>> THEN keep
      ELSE IF nSecond < nPrev THEN keep
      ELSE IF nSecond = nPrev THEN keep
      ELSE store

RECURSIVE Reconcile(_, _, _, _)
Reconcile(allData, data, prevData, retry) ==
  IF retry = <<>> THEN [threw |-> FALSE, allData |-> allData]
  ELSE LET one == ReconcileOne(allData, data, prevData, Head(retry))
       IN  IF one.threw THEN one
           ELSE Reconcile(one.allData, data, prevData, Tail(retry))

\* Line 400 writing the inner callback's data, the second-pass records.
WrittenSecondPass(allData, data) == stringify(data)

\* What line 400 writes to path.
Written(allData, data) == stringify(allData)

(***************************************************************************)
(* State.                                                                  *)
(***************************************************************************)
VARIABLES
  op,           \* the exported function that was called: "none", "importHTTP", "importIDL"
  pc,           \* "idle", "pass1", "pass2", "loading", "done", "rejected", "threw"
  urls,         \* importHTTP, importIDL: urls after canonicalization
  pathFile,     \* the dataset file at path
  urlCacheDir,  \* .urlcache: file name -> file
  idlCacheDir,  \* .idlcache: file name -> file
  jobUrls,      \* the URLs of the jobs handed to Promise.all in the current pass
  results,      \* the value each job of the current pass resolved with
  settled,      \* the indices of the jobs of the current pass that have settled
  seleniumFail, \* importHTTP: the errs list
  allData,      \* importHTTP: allData
  prevData,     \* importHTTP: prevData, <<>> for null
  retryURLs,    \* importHTTP: retryURLs
  resolved,     \* the value the returned promise resolved with
  firstPass,    \* history: the data the first Promise.all resolved with
  secondPass,   \* history: the data the second Promise.all resolved with
  urlEpoch,     \* history: the pass in which each raw-bytes file was written (0: before the call)
  idlEpoch,     \* history: the pass in which each parse-record file was written
  served,       \* history: per job of the current pass, the oldest epoch of a cache file its result was read from
  failedJobs,   \* history: the jobs of the current pass whose fetch was rejected or whose parse threw
  seleniumManager, \* importHTTP: the manager the variable seleniumManager holds (0: none)
  mgr,          \* history: per ScraperManager created, its jobs in flight and its destroy calls
  acq,          \* history: per job of the current pass, how its content was acquired
  requested,    \* importIDL: the jobs for which loadURL sent a request
  stored,       \* history: per URL, the files stored for it since its caches were last cleared
  prior,        \* history: the dataset file and the parse-record directory before the call
  uqPc,         \* getUniqueURLs alone: "input", "once", "twice"
  uqArg,        \* getUniqueURLs alone: the list it is applied to
  uqRet,        \* getUniqueURLs alone: what it returned
  uqAgain,      \* getUniqueURLs alone: what it returned when applied to its own result
  poolPc,       \* one ScraperManager: "new", "scraping", "destroyed"
  pool,         \* one ScraperManager: its jobs issued, waiting, with a worker, settled, and its dead workers
  running,      \* BlinkLinkedRunner: this.running
  urlsToFiles,  \* BlinkLinkedRunner: this.urlsToFiles
  urlsToParses, \* BlinkLinkedRunner: this.urlsToParses
  eachFilePromises, \* BlinkLinkedRunner: this.eachFilePromises, each promise with its file and state
  globStream,   \* BlinkLinkedRunner: this.globStream, its state and the files it has yet to emit
  bound,        \* BlinkLinkedRunner: whether the binding memos.bind made is still attached
  finishDue,    \* BlinkLinkedRunner: whether the call of finish is scheduled
  runPromise,   \* BlinkLinkedRunner: the promise run() returned: "none", "pending", "resolved", "rejected"
  runValue,     \* BlinkLinkedRunner: the value it resolved with
  ppcache,      \* the durable cache memos.ppcache('webidl-data'): key -> output
  gatherMemo,   \* the outputs the gather node of the runner holds: key -> output
  runs,         \* history: the calls of run() that were accepted
  runners,      \* history: the runners constructed
  runThrew,     \* history: whether the last call of run() threw
  gatherLog,    \* history: per gather.run of the runner, its key, whether f
                \* was invoked and whether it threw
  storeLog      \* history: per store.run, its key, whether f was invoked, and its output

importerVars ==
  <<op, pc, urls, pathFile, urlCacheDir, idlCacheDir, jobUrls, results, settled,
    seleniumFail, allData, prevData, retryURLs, resolved, firstPass, secondPass,
    urlEpoch, idlEpoch, served, failedJobs, seleniumManager, mgr, acq, stored,
    prior, requested>>

uniqueVars == <<uqPc, uqArg, uqRet, uqAgain>>

poolVars == <<poolPc, pool>>

runnerVars ==
  <<running, urlsToFiles, urlsToParses, eachFilePromises, globStream, bound,
    finishDue, runPromise, runValue, ppcache, gatherMemo, runs, runners,
    runThrew, gatherLog, storeLog>>

\* The variables no step of the importer changes.
notImporterVars == <<uniqueVars, poolVars, runnerVars, prior>>

\* The variables no application of getUniqueURLs alone changes.
notUniqueVars == <<importerVars, poolVars, runnerVars>>

\* The variables no step of the ScraperManager alone changes.
notPoolVars == <<importerVars, uniqueVars, runnerVars>>

\* The variables no step of BlinkLinkedRunner changes.
notRunnerVars == <<importerVars, uniqueVars, poolVars>>

vars == <<importerVars, uniqueVars, poolVars, runnerVars>>

(***************************************************************************)
(* The disk before the call, and the inputs.                               *)
(***************************************************************************)
\* A dataset the importer wrote earlier: records sorted by URL, one per URL,
\* over UrlA and UrlX; a count of MaxFrag + 1 stands for "no record".
PriorDataset(a, x) ==
  (IF a <= MaxFrag THEN <<Rec(UrlA, Frags(a))>> ELSE <<>>)
    \o (IF x <= MaxFrag THEN <<Rec(UrlX, Frags(x))>> ELSE <<>>)

PriorFiles ==
  {NoFile, Garbage}
    \cup {stringify(PriorDataset(a, x)) : a \in 0..(MaxFrag + 1), x \in 0..(MaxFrag + 1)}

\* The cache directories before the call: empty, or as an earlier call that
\* acquired UrlA from a page with one fragment left them.
PriorCaches ==
  { [url |-> EmptyDir, idl |-> EmptyDir],
    [url |-> [EmptyDir EXCEPT ![getCacheFileName(UrlA)] = RawFile(ArrayData(<<Idl(1)>>))],
     idl |-> [EmptyDir EXCEPT ![getCacheFileName(UrlA)] = stringify(Rec(UrlA, Frags(1)))]],
    [url |-> EmptyDir,
     idl |-> [EmptyDir EXCEPT ![getCacheFileName(UrlX)] = Garbage]] }

\* The raw URL lists importHTTP is called with.
HTTPInputs ==
  { <<UrlA>>, <<UrlXh, UrlX>>, <<UrlA, UrlB>>, <<UrlX, UrlA>>, <<UrlA, UrlBad>> }

\* The raw URL lists importIDL is called with.
IDLInputs ==
  { <<UrlX>>, <<UrlA, UrlA>>, <<UrlB, UrlX, UrlA>> }

\* What a page load or a request can end with.
ScrapeOutcomes == {Failure} \cup {Fetched(ArrayData(c)) : c \in PageContents}
RequestOutcomes == {Failure} \cup {Fetched(BareData(b)) : b \in BodyContents}

NoResult == Rec(<<>>, <<>>)

\* The URLs a job can be started for.
StoreURLs == {UrlA, UrlX, UrlB}

\* Nothing stored for a URL: no raw bytes, no parse record.
NothingStored == [raw |-> NoFile, idl |-> NoFile]

\* A job that has not settled: no fetch issued, no content, no cached record
\* seen.
NotAcquired ==
  [fetch |-> FALSE, ok |-> FALSE, hit |-> FALSE, data |-> ArrayData(<<>>)]

\* A ScraperManager as the factory returns it (lines 259-278): no job in
\* flight, destroy not called. early records a destroy with jobs in flight,
\* late a scrape issued after destroy.
FreshManager == [pending |-> 0, destroys |-> 0, early |-> FALSE, late |-> FALSE]

\* manager.scrape called n times on manager k.
Issue(mgrs, k, n) ==
  [mgrs EXCEPT ![k] = [@ EXCEPT !.pending = @ + n,
                                !.late = @ \/ (n > 0 /\ mgrs[k].destroys > 0)]]

\* One scrape of manager k settles.
Settle(mgrs, k) ==
  [mgrs EXCEPT ![k] = [@ EXCEPT !.pending = IF @ > 0 THEN @ - 1 ELSE 0]]

\* manager.destroy() on manager k.
Destroy(mgrs, k) ==
  [mgrs EXCEPT ![k] = [@ EXCEPT !.destroys = @ + 1,
                                !.early = @ \/ mgrs[k].pending > 0]]

\* The second pass with seleniumManager still naming the first manager.
ReassignedNot(mgrs, old) == old

\* seleniumManager after the assignment of line 328: the manager created
\* last.
Reassigned(mgrs, old) == Len(mgrs)

\* The files stored for url by one job: the raw bytes when the fetch wrote
\* them, the parse record when parse wrote it.
Store(st, url, s, p) ==
  [st EXCEPT ![url] =
     [raw |-> IF s.ok /\ ~s.cached THEN RawFile(s.data) ELSE @.raw,
      idl |-> IF s.ok /\ ~p.threw /\ ~p.cached THEN stringify(p.rec) ELSE @.idl]]

\* clearCache(url) for every url of retry.
Forget(st, retry) ==
  [u \in DOMAIN st |-> IF InSeq(retry, u) THEN NothingStored ELSE st[u]]

\* The importer before any call, apart from the disk.
ImporterIdle ==
  /\ op = "none"
  /\ pc = "idle"
  /\ urls = <<>>
  /\ jobUrls = <<>>
  /\ results = <<>>
  /\ settled = {}
  /\ seleniumFail = <<>>
  /\ allData = <<>>
  /\ prevData = <<>>
  /\ retryURLs = <<>>
  /\ resolved = <<>>
  /\ firstPass = <<>>
  /\ secondPass = <<>>
  /\ urlEpoch = [n \in CacheNames |-> 0]
  /\ idlEpoch = [n \in CacheNames |-> 0]
  /\ served = <<>>
  /\ failedJobs = {}
  /\ seleniumManager = 0
  /\ mgr = <<>>
  /\ acq = <<>>
  /\ requested = {}
  /\ stored = [u \in StoreURLs |-> NothingStored]

\* An empty disk.
NoDisk ==
  /\ pathFile = NoFile
  /\ urlCacheDir = EmptyDir
  /\ idlCacheDir = EmptyDir

\* The disk as it is before the call.
PriorRecorded == prior = [pathFile |-> pathFile, idlCacheDir |-> idlCacheDir]

\* getUniqueURLs not under study.
UniqueIdle ==
  /\ uqPc = "input"
  /\ uqArg = <<>>
  /\ uqRet = [threw |-> FALSE, urls |-> <<>>]
  /\ uqAgain = [threw |-> FALSE, urls |-> <<>>]

\* The ScraperManager not under study.
PoolIdle ==
  /\ poolPc = "new"
  /\ pool = [issued |-> 0, waiting |-> 0, busy |-> 0, dead |-> 0, settled |-> 0]

\* A BlinkLinkedRunner after init (BlinkLinkedRunner.es6.js lines 27-30); run
\* has not set urlsToFiles and urlsToParses yet.
RunnerFields ==
  /\ running = FALSE
  /\ eachFilePromises = <<>>
  /\ urlsToFiles = <<>>
  /\ urlsToParses = <<>>
  /\ globStream = [state |-> "none", left |-> <<>>]
  /\ bound = FALSE
  /\ finishDue = FALSE
  /\ runPromise = "none"
  /\ runValue = <<>>
  /\ gatherMemo = <<>>

\* The first runner, over an empty durable cache.
RunnerIdle ==
  /\ RunnerFields
  /\ ppcache = <<>>
  /\ runs = 0
  /\ runners = 1
  /\ runThrew = FALSE
  /\ gatherLog = <<>>
  /\ storeLog = <<>>

Init ==
  /\ ImporterIdle
  /\ pathFile \in PriorFiles
  /\ \E c \in PriorCaches : urlCacheDir = c.url /\ idlCacheDir = c.idl
  /\ PriorRecorded
  /\ UniqueIdle
  /\ PoolIdle
  /\ RunnerIdle

(***************************************************************************)
(* importHTTP (lines 252-409).                                             *)
(***************************************************************************)
\* The pass the jobs in flight belong to.
Pass == IF pc = "pass2" THEN 2 ELSE 1

\* Promise.all over one job per URL: all jobs start at once.
StartJobs(list) ==
  /\ jobUrls' = list
  /\ results' = [i \in 1..Len(list) |-> NoResult]
  /\ served' = [i \in 1..Len(list) |-> 2]
  /\ settled' = {}
  /\ failedJobs' = {}
  /\ acq' = [i \in 1..Len(list) |-> NotAcquired]

\* The call: getUniqueURLs, prepareToScrape, the first manager, and the first
\* scrapeURLs over every URL. A malformed URL makes the call throw.
ImportHTTP(raw) ==
  /\ pc = "idle"
  /\ LET u == getUniqueURLs(raw)
     IN  IF u.threw
           THEN /\ pc' = "threw"
                /\ op' = "importHTTP"
                /\ UNCHANGED <<urls, jobUrls, results, settled, served, failedJobs,
                               acq, mgr, seleniumManager>>
           ELSE /\ pc' = "pass1"
                /\ op' = "importHTTP"
                /\ urls' = u.urls
                /\ seleniumManager' = 1
                /\ mgr' = Issue(<<FreshManager>>, 1, Len(u.urls))
                /\ StartJobs(u.urls)
  /\ UNCHANGED <<pathFile, urlCacheDir, idlCacheDir, seleniumFail, allData,
                 prevData, retryURLs, resolved, firstPass, secondPass,
                 urlEpoch, idlEpoch, stored>>
  /\ UNCHANGED requested
  /\ UNCHANGED notImporterVars

\* The oldest epoch of the cache files a job's result was read from (the
\* current pass when it read none).
ServedFrom(url, s, p) ==
  LET name == getCacheFileName(url)
      u == IF s.ok /\ s.cached THEN urlEpoch[name] ELSE Pass
      i == IF s.ok /\ p.cached THEN idlEpoch[name] ELSE Pass
  IN  IF u < i THEN u ELSE i

\* One job of scrapeURLs settles (lines 285-293):
\* seleniumManager.scrape(url).then(parse).catch(...).
ScrapeJob(i, net) ==
  /\ pc \in {"pass1", "pass2"}
  /\ i \in (1..Len(jobUrls)) \ settled
  /\ LET url == jobUrls[i]
         name == getCacheFileName(url)
         s == scrape(url, net, urlCacheDir)
         p == parse(url, s.data, idlCacheDir)
         failed == ~s.ok \/ p.threw
     IN  /\ urlCacheDir' = s.dir
         /\ urlEpoch' = IF s.dir # urlCacheDir THEN [urlEpoch EXCEPT ![name] = Pass]
                        ELSE urlEpoch
         /\ idlCacheDir' = IF s.ok THEN p.idl ELSE idlCacheDir
         /\ idlEpoch' = IF s.ok /\ p.idl # idlCacheDir
                          THEN [idlEpoch EXCEPT ![name] = Pass]
                        ELSE idlEpoch
         /\ results' = [results EXCEPT ![i] = Caught(url, failed, p.rec)]
         /\ failedJobs' = IF failed THEN failedJobs \cup {i} ELSE failedJobs
         /\ seleniumFail' = IF failed THEN Append(seleniumFail, url) ELSE seleniumFail
         /\ served' = [served EXCEPT ![i] = ServedFrom(url, s, p)]
         /\ acq' = [acq EXCEPT ![i] = [fetch |-> TRUE, ok |-> s.ok,
                                       hit |-> idlCacheDir[name].kind = "json",
                                       data |-> s.data]]
         /\ stored' = Store(stored, url, s, p)
  /\ settled' = settled \cup {i}
  /\ mgr' = Settle(mgr, seleniumManager)
  /\ UNCHANGED <<op, pc, urls, pathFile, jobUrls, allData, prevData, retryURLs,
                 resolved, firstPass, secondPass, seleniumManager>>
  /\ UNCHANGED requested
  /\ UNCHANGED notImporterVars

\* JSON.parse(fs.readFileSync(path)) in its try/catch (lines 306-311): <<>> for
\* null.
ReadPrevData(file) == IF file.kind = "json" THEN file.value ELSE <<>>

\* The first Promise.all resolves (lines 298-338): sort, retry marking, cache
\* clearing, and the second scrapeURLs over the retry URLs.
AfterFirstPass ==
  /\ pc = "pass1"
  /\ settled = 1..Len(jobUrls)
  /\ LET sorted == SortByUrl(results)
         prev == ReadPrevData(pathFile)
         retry == MarkRetry(prev, sorted)
         cleared == clearCacheAll(urlCacheDir, idlCacheDir, retry)
     IN  /\ firstPass' = results
         /\ allData' = sorted
         /\ prevData' = prev
         /\ retryURLs' = retry
         /\ urlCacheDir' = cleared.url
         /\ idlCacheDir' = cleared.idl
         /\ stored' = Forget(stored, retry)
         /\ StartJobs(SecondPassURLs(urls, retry))
         /\ LET created == Append(Destroy(mgr, seleniumManager), FreshManager)
                current == Reassigned(created, seleniumManager)
            IN  /\ seleniumManager' = current
                /\ mgr' = Issue(created, current, Len(SecondPassURLs(urls, retry)))
  /\ pc' = "pass2"
  /\ UNCHANGED <<op, urls, pathFile, seleniumFail, resolved, secondPass,
                 urlEpoch, idlEpoch>>
  /\ UNCHANGED requested
  /\ UNCHANGED notImporterVars

\* The second Promise.all resolves (lines 338-407): the loop over retryURLs,
\* then the write. An exception in the loop rejects the returned promise and
\* nothing is written.
AfterSecondPass ==
  /\ pc = "pass2"
  /\ settled = 1..Len(jobUrls)
  /\ secondPass' = results
  /\ LET r == Reconcile(allData, results, prevData, retryURLs)
     IN  IF r.threw
           THEN /\ pc' = "rejected"
                /\ UNCHANGED <<allData, pathFile, resolved>>
           ELSE /\ pc' = "done"
                /\ allData' = r.allData
                /\ pathFile' = Written(r.allData, results)
                /\ resolved' = r.allData
  /\ mgr' = Destroy(mgr, seleniumManager)
  /\ UNCHANGED <<op, urls, urlCacheDir, idlCacheDir, jobUrls, results, settled,
                 seleniumFail, prevData, retryURLs, firstPass, urlEpoch,
                 idlEpoch, served, failedJobs, seleniumManager, acq, stored>>
  /\ UNCHANGED requested
  /\ UNCHANGED notImporterVars

(***************************************************************************)
(* importIDL (lines 410-427).                                              *)
(***************************************************************************)
\* The call: _.uniq(urls).sort(), then one loadURL(url).then(parse) job per
\* URL; loadURL looks its file up in the raw-bytes directory as it is called
\* (lines 176-181) and sends a request when there is none.
ImportIDL(raw) ==
  /\ pc = "idle"
  /\ pc' = "loading"
  /\ op' = "importIDL"
  /\ urls' = SortStrs(Uniq(raw))
  /\ StartJobs(SortStrs(Uniq(raw)))
  /\ requested' = Requested(SortStrs(Uniq(raw)), urlCacheDir)
  /\ UNCHANGED <<pathFile, urlCacheDir, idlCacheDir, seleniumFail, allData,
                 prevData, retryURLs, resolved, firstPass, secondPass,
                 urlEpoch, idlEpoch, seleniumManager, mgr, stored>>
  /\ UNCHANGED notImporterVars

\* One job settles (lines 415-418). The jobs whose file was found at the
\* call settle in job order in the reactions that follow the call, before
\* the response to any request; a job whose request was sent settles when
\* the request ends with net.
LoadJob(i, net) ==
  /\ pc = "loading"
  /\ i \in (1..Len(jobUrls)) \ settled
  /\ \A j \in (1..Len(jobUrls)) \ requested :
       (i \in requested \/ j < i) => j \in settled
  /\ LET url == jobUrls[i]
         name == getCacheFileName(url)
         s == loadURL(url, i \in requested, net, urlCacheDir)
         p == parse(url, s.data, idlCacheDir)
         failed == ~s.ok \/ p.threw
     IN  /\ urlCacheDir' = s.dir
         /\ urlEpoch' = IF s.dir # urlCacheDir THEN [urlEpoch EXCEPT ![name] = Pass]
                        ELSE urlEpoch
         /\ idlCacheDir' = IF s.ok THEN p.idl ELSE idlCacheDir
         /\ idlEpoch' = IF s.ok /\ p.idl # idlCacheDir
                          THEN [idlEpoch EXCEPT ![name] = Pass]
                        ELSE idlEpoch
         /\ results' = [results EXCEPT ![i] = Caught(url, failed, p.rec)]
         /\ failedJobs' = IF failed THEN failedJobs \cup {i} ELSE failedJobs
         /\ served' = [served EXCEPT ![i] = ServedFrom(url, s, p)]
         /\ acq' = [acq EXCEPT ![i] = [fetch |-> i \in requested, ok |-> s.ok,
                                       hit |-> idlCacheDir[name].kind = "json",
                                       data |-> s.data]]
         /\ stored' = Store(stored, url, s, p)
  /\ settled' = settled \cup {i}
  /\ UNCHANGED <<op, pc, urls, pathFile, jobUrls, seleniumFail, allData,
                 prevData, retryURLs, resolved, firstPass, secondPass,
                 seleniumManager, mgr>>
  /\ UNCHANGED requested
  /\ UNCHANGED notImporterVars

\* Promise.all resolves (lines 418-426): the data is written in job order.
AfterLoad ==
  /\ pc = "loading"
  /\ settled = 1..Len(jobUrls)
  /\ pc' = "done"
  /\ firstPass' = results
  /\ pathFile' = stringify(results)
  /\ resolved' = results
  /\ UNCHANGED <<op, urls, urlCacheDir, idlCacheDir, jobUrls, results, settled,
                 seleniumFail, allData, prevData, retryURLs, secondPass,
                 urlEpoch, idlEpoch, served, failedJobs, seleniumManager, mgr,
                 acq, stored>>
  /\ UNCHANGED requested
  /\ UNCHANGED notImporterVars

Next ==
  \/ \E raw \in HTTPInputs : ImportHTTP(raw)
  \/ \E i \in 1..3, net \in ScrapeOutcomes : ScrapeJob(i, net)
  \/ AfterFirstPass
  \/ AfterSecondPass
  \/ \E raw \in IDLInputs : ImportIDL(raw)
  \/ \E i \in 1..3, net \in RequestOutcomes : LoadJob(i, net)
  \/ AfterLoad

Spec == Init /\ [][Next]_vars

(***************************************************************************)
(* getUniqueURLs alone: applied to a list of raw URLs, then to its own     *)
(* result.                                                                 *)
(***************************************************************************)
\* Longest list of raw URLs.
MaxList == 3

\* The raw URLs: one host with no, one and two trailing slashes under both
\* schemes, a second host, and a URL the scheme pattern does not match.
RawRests == {<<"a">>, <<"a", "/">>, <<"a", "/", "/">>}
RawURLs ==
  {scheme \o SchemeSep \o rest : scheme \in {Http, Https}, rest \in RawRests}
    \cup {UrlA, UrlBad}

RawLists == UNION {[1..n -> RawURLs] : n \in 0..MaxList}

InitUnique ==
  /\ ImporterIdle
  /\ NoDisk
  /\ PriorRecorded
  /\ uqPc = "input"
  /\ uqArg \in RawLists
  /\ uqRet = [threw |-> FALSE, urls |-> <<>>]
  /\ uqAgain = [threw |-> FALSE, urls |-> <<>>]
  /\ PoolIdle
  /\ RunnerIdle

\* getUniqueURLs(urls) (lines 134-161).
ApplyUnique ==
  /\ uqPc = "input"
  /\ uqPc' = "once"
  /\ uqRet' = getUniqueURLs(uqArg)
  /\ UNCHANGED <<uqArg, uqAgain>>
  /\ UNCHANGED notUniqueVars

\* getUniqueURLs applied to the list it returned.
ReapplyUnique ==
  /\ uqPc = "once"
  /\ ~uqRet.threw
  /\ uqPc' = "twice"
  /\ uqAgain' = getUniqueURLs(uqRet.urls)
  /\ UNCHANGED <<uqArg, uqRet>>
  /\ UNCHANGED notUniqueVars

NextUnique ==
  \/ ApplyUnique
  \/ ReapplyUnique

SpecUnique == InitUnique /\ [][NextUnique]_vars

(***************************************************************************)
(* One ScraperManager as importHTTP uses it: every scrape of a pass is     *)
(* issued at once (scrapeURLs, lines 284-294) to a manager of numInstances *)
(* workers (lines 273-277). The manager is not part of the sources; its    *)
(* scheduling is modelled from its specification.                          *)
(***************************************************************************)
\* opts.numInstances || 8 (line 274), numInstances: 8 (line 329).
numInstances == 8

\* Largest number of URLs of a pass.
MaxJobs == 10

InitPool ==
  /\ ImporterIdle
  /\ NoDisk
  /\ PriorRecorded
  /\ UniqueIdle
  /\ PoolIdle
  /\ RunnerIdle

\* urls.map(url => seleniumManager.scrape(url)...): n scrapes are issued in
\* one turn.
ScrapeAll(n) ==
  /\ poolPc = "new"
  /\ poolPc' = "scraping"
  /\ pool' = [pool EXCEPT !.issued = n, !.waiting = n]
  /\ UNCHANGED notPoolVars

\* scrape starting its page load without waiting for a worker.
WorkerIdleFree(pl) == TRUE

\* Whether a waiting scrape can obtain a worker: some worker is neither busy
\* nor dead.
WorkerIdle(pl) == pl.busy + pl.dead < numInstances

\* A waiting scrape obtains an idle worker.
Obtain ==
  /\ poolPc = "scraping"
  /\ pool.waiting > 0
  /\ WorkerIdle(pool)
  /\ pool' = [pool EXCEPT !.waiting = @ - 1, !.busy = @ + 1]
  /\ UNCHANGED poolPc
  /\ UNCHANGED notPoolVars

\* A scrape settles (content, a timeout or an automation error) and its
\* worker is idle again.
Release ==
  /\ poolPc = "scraping"
  /\ pool.busy > 0
  /\ pool' = [pool EXCEPT !.busy = @ - 1, !.settled = @ + 1]
  /\ UNCHANGED poolPc
  /\ UNCHANGED notPoolVars

\* A scrape is rejected by a fatal failure of its worker, which is dead from
\* then on.
Die ==
  /\ poolPc = "scraping"
  /\ pool.busy > 0
  /\ pool' = [pool EXCEPT !.busy = @ - 1, !.dead = @ + 1, !.settled = @ + 1]
  /\ UNCHANGED poolPc
  /\ UNCHANGED notPoolVars

\* seleniumManager.destroy() in the then-callback of Promise.all (lines 300,
\* 339): every scrape has settled.
DestroyPool ==
  /\ poolPc = "scraping"
  /\ pool.settled = pool.issued
  /\ poolPc' = "destroyed"
  /\ UNCHANGED pool
  /\ UNCHANGED notPoolVars

NextPool ==
  \/ \E n \in 0..MaxJobs : ScrapeAll(n)
  \/ Obtain
  \/ Release
  \/ Die
  \/ DestroyPool

SpecPool == InitPool /\ [][NextPool]_vars

(***************************************************************************)
(* BlinkLinkedRunner.es6.js: the gather and store nodes, run, processFile, *)
(* onDataReady, onError. Memo, memos.bind and the pipeline it binds are    *)
(* not part of the sources and are modelled from their specification.      *)
(***************************************************************************)
\* Calls of run() that are accepted.
MaxRuns == 2

\* Runners constructed over the same durable cache.
MaxRunners == 2

\* list.join(sep)
RECURSIVE Join(_, _)
Join(list, sep) ==
  IF list = <<>> THEN <<>>
  ELSE IF Len(list) = 1 THEN list[1]
  ELSE list[1] \o sep \o Join(Tail(list), sep)

\* Memo.hashCode(str).toString(): taken to give distinct keys for the
\* distinct strings of the model.
hashCode(str) == str

\* getKey of gather (lines 39-43): computed from the keys of urlsToFiles, not
\* from the input.
gatherGetKey(u2f) == hashCode(Join(SortStrs(Keys(u2f)), <<"|">>))

\* getKey of store (line 82).
storeGetKey == "blink-linked"

\* gather is made with no cache option (lines 38-76): what the node holds is
\* lost with the runner.
gatherDeclaresCache == FALSE

\* store is made with cache: memos.ppcache('webidl-data') (line 83): what the
\* node holds is persisted and there for the next runner.
storeDeclaresCache == TRUE

\* Memo.run invoking the function whatever the cache holds.
MemoRunAlways(cache, key, computed) ==
  [invoked |-> TRUE, output |-> computed, cache |-> Put(cache, key, computed)]

\* Memo.run(input) on a node whose backing cache is cache, computed being
\* what f gives for the input: when the cache holds an output for the key,
\* that output, f not invoked; otherwise what f gives, which the cache then
\* holds under the key.
MemoRun(cache, key, computed) ==
  IF HasKey(cache, key)
    THEN [invoked |-> FALSE, output |-> Get(cache, key), cache |-> cache]
  ELSE [invoked |-> TRUE, output |-> computed, cache |-> Put(cache, key, computed)]

\* The while loop of gather's f (lines 56-59): single-element wrappers are
\* taken off parses until its length is that of urls; a length other than 1
\* on the way throws 'Malformed memo output'.
RECURSIVE Align(_, _)
Align(parses, n) ==
  IF Len(parses) = n THEN [threw |-> FALSE, parses |-> parses]
  ELSE IF Len(parses) # 1 THEN [threw |-> TRUE, parses |-> <<>>]
  ELSE Align(parses[1], n)

\* parsesFromURL.reduce((acc, parseFromTag) => acc.concat(parseFromTag), [])
RECURSIVE Concat(_)
Concat(lists) ==
  IF lists = <<>> THEN <<>> ELSE Head(lists) \o Concat(Tail(lists))

\* urlsToFiles[url] = urlsToFiles[url] || []; urlsToFiles[url].push(file)
PushFile(u2f, url, file) ==
  Put(u2f, url, Append(IF HasKey(u2f, url) THEN Get(u2f, url) ELSE <<>>, file))

\* The files of the for loop alone, for the urls from the i-th on.
RECURSIVE FilesLoop(_, _, _, _)
FilesLoop(file, us, i, u2f) ==
  IF i > Len(us) THEN u2f
  ELSE FilesLoop(file, us, i + 1, PushFile(u2f, us[i], file))

\* The for loop of gather's f (lines 67-72), from the i-th url on.
RECURSIVE GatherLoop(_, _, _, _, _, _)
GatherLoop(file, us, parses, i, u2f, u2p) ==
  IF i > Len(us)
    THEN [threw |-> FALSE, urlsToFiles |-> u2f, urlsToParses |-> u2p]
  ELSE GatherLoop(file, us, parses, i + 1,
                  PushFile(u2f, us[i], file),
                  Put(u2p, us[i], Concat(parses[i])))

\* gather's f with the files recorded before parses is aligned.
gatherFFilesFirst(file, output, u2f, u2p) ==
  IF output.kind \in {"undefined", "empty"}
    THEN [threw |-> FALSE, urlsToFiles |-> u2f, urlsToParses |-> u2p]
  ELSE LET a == Align(output.delegates, Len(output.output))
       IN  IF a.threw
             THEN [threw |-> TRUE,
                   urlsToFiles |-> FilesLoop(file, output.output, 1, u2f),
                   urlsToParses |-> u2p]
           ELSE GatherLoop(file, output.output, a.parses, 1, u2f, u2p)

\* f of gather (lines 44-75) on {file, output} with this.urlsToFiles and
\* this.urlsToParses as they are at the call: [threw, urlsToFiles,
\* urlsToParses].
gatherF(file, output, u2f, u2p) ==
  IF output.kind \in {"undefined", "empty"}
    THEN [threw |-> FALSE, urlsToFiles |-> u2f, urlsToParses |-> u2p]
  ELSE LET a == Align(output.delegates, Len(output.output))
       IN  IF a.threw
             THEN [threw |-> TRUE, urlsToFiles |-> u2f, urlsToParses |-> u2p]
           ELSE GatherLoop(file, output.output, a.parses, 1, u2f, u2p)

\* f of store (lines 84-95): one {url, files, parses} per key of urlsToFiles,
\* in the order of Object.keys.
storeF(u2f, u2p) ==
  [i \in 1..Len(u2f) |->
     [url |-> u2f[i][1], files |-> u2f[i][2], parses |-> Get(u2p, u2f[i][1])]]

\* What pipeline.runAll resolves with: {output, delegates}, a value that is
\* not one, or an empty array.
NoOutput == [kind |-> "undefined", output |-> <<>>, delegates |-> <<>>]
EmptyOutput == [kind |-> "empty", output |-> <<>>, delegates |-> <<>>]
MemoOutput(us, delegates) ==
  [kind |-> "memo", output |-> us, delegates |-> delegates]

\* The parses of one URL: one list of fragments per tag.
TwoTags == << <<1>>, <<2>> >>
OneTag == << <<1>> >>

\* The pipeline outputs of the model: none, empty, one URL with its parses,
\* two URLs with their parses under one wrapper, and two whose parses cannot
\* be aligned with the URLs (two lists for one URL; three lists under one
\* wrapper for two URLs).
PipelineOutputs ==
  << NoOutput,
     EmptyOutput,
     MemoOutput(<<UrlX>>, <<TwoTags>>),
     MemoOutput(<<UrlA, UrlX>>, << <<OneTag, TwoTags>> >>),
     MemoOutput(<<UrlX>>, <<TwoTags, OneTag>>),
     MemoOutput(<<UrlA, UrlX>>, << <<TwoTags, OneTag, OneTag>> >>) >>

\* The .idl files glob-stream finds under blinkPath.
RunnerFiles == { <<>>, <<"a.idl">>, <<"a.idl", "b.idl">> }

InitRunner ==
  /\ ImporterIdle
  /\ NoDisk
  /\ PriorRecorded
  /\ UniqueIdle
  /\ PoolIdle
  /\ RunnerIdle

\* new BlinkLinkedRunner(...) once the promise of the runner before it has
\* settled: init (lines 27-97) over the durable cache as it is.
NewRunner ==
  /\ runners < MaxRunners
  /\ runPromise \in {"resolved", "rejected"}
  /\ runners' = runners + 1
  /\ running' = FALSE
  /\ eachFilePromises' = <<>>
  /\ urlsToFiles' = <<>>
  /\ urlsToParses' = <<>>
  /\ globStream' = [state |-> "none", left |-> <<>>]
  /\ bound' = FALSE
  /\ finishDue' = FALSE
  /\ runPromise' = "none"
  /\ runValue' = <<>>
  /\ runThrew' = FALSE
  /\ gatherMemo' = IF gatherDeclaresCache THEN gatherMemo ELSE <<>>
  /\ ppcache' = IF storeDeclaresCache THEN ppcache ELSE <<>>
  /\ gatherLog' = <<>>
  /\ UNCHANGED <<runs, storeLog>>
  /\ UNCHANGED notRunnerVars

\* run() (lines 104-149) with files under blinkPath: it throws when a run is
\* going on; otherwise it clears the output data, binds the pipeline and
\* opens the stream.
Run(files) ==
  /\ IF running
       THEN /\ ~runThrew
            /\ runThrew' = TRUE
            /\ UNCHANGED <<running, urlsToFiles, urlsToParses, globStream, bound,
                           runPromise, runValue, runs>>
       ELSE /\ runs < MaxRuns
            /\ runThrew' = FALSE
            /\ running' = TRUE
            /\ urlsToFiles' = <<>>
            /\ urlsToParses' = <<>>
            /\ bound' = TRUE
            /\ globStream' = [state |-> "open", left |-> files]
            /\ runPromise' = "pending"
            /\ runValue' = <<>>
            /\ runs' = runs + 1
  /\ UNCHANGED <<eachFilePromises, finishDue, ppcache, gatherMemo, runners, gatherLog, storeLog>>
  /\ UNCHANGED notRunnerVars

\* The stream emits 'data' (lines 130-133): processFile (153-159) starts the
\* pipeline on the file and pushes the promise of its gather.
Data ==
  /\ globStream.state = "open"
  /\ globStream.left # <<>>
  /\ globStream' = [globStream EXCEPT !.left = Tail(@)]
  /\ eachFilePromises' =
       Append(eachFilePromises,
              [file |-> Head(globStream.left), state |-> "pending",
               error |-> "none", run |-> runs])
  /\ UNCHANGED <<running, urlsToFiles, urlsToParses, bound, finishDue, runPromise,
                 runValue, ppcache, gatherMemo, runs, runners, runThrew, gatherLog, storeLog>>
  /\ UNCHANGED notRunnerVars

\* pipeline.runAll of the i-th promise resolves with the k-th output and
\* gather.run({file, output}) runs (lines 154-156): the promise is fulfilled,
\* or rejected when f throws, and then the node holds no output for the key.
\* The output data changes only when f is invoked.
GatherRun(i, k) ==
  /\ i \in 1..Len(eachFilePromises)
  /\ eachFilePromises[i].state = "pending"
  /\ LET key == gatherGetKey(urlsToFiles)
         r == MemoRun(gatherMemo, key,
                      gatherF(eachFilePromises[i].file, PipelineOutputs[k],
                              urlsToFiles, urlsToParses))
     IN  /\ urlsToFiles' = IF r.invoked THEN r.output.urlsToFiles ELSE urlsToFiles
         /\ urlsToParses' = IF r.invoked THEN r.output.urlsToParses
                            ELSE urlsToParses
         /\ gatherMemo' = IF r.output.threw THEN gatherMemo ELSE r.cache
         /\ eachFilePromises' =
              [eachFilePromises EXCEPT
                 ![i] = IF r.invoked /\ r.output.threw
                          THEN [@ EXCEPT !.state = "rejected",
                                         !.error = "Malformed memo output"]
                        ELSE [@ EXCEPT !.state = "fulfilled"]]
         /\ gatherLog' = Append(gatherLog, [key |-> key, invoked |-> r.invoked,
                                           threw |-> r.invoked /\ r.output.threw])
  /\ UNCHANGED <<running, globStream, bound, finishDue, runPromise, runValue,
                 ppcache, runs, runners, runThrew, storeLog>>
  /\ UNCHANGED notRunnerVars

\* pipeline.runAll of the i-th promise is rejected: gather is not run.
PipelineFails(i) ==
  /\ i \in 1..Len(eachFilePromises)
  /\ eachFilePromises[i].state = "pending"
  /\ eachFilePromises' =
       [eachFilePromises EXCEPT ![i] = [@ EXCEPT !.state = "rejected",
                                                 !.error = "pipeline"]]
  /\ UNCHANGED <<running, urlsToFiles, urlsToParses, globStream, bound, finishDue,
                 runPromise, runValue, ppcache, gatherMemo, runs, runners, runThrew,
                 gatherLog, storeLog>>
  /\ UNCHANGED notRunnerVars

\* The stream emits 'error' (lines 137-141): onError rejects the promise, and
\* finish is scheduled.
StreamError ==
  /\ globStream.state = "open"
  /\ globStream' = [globStream EXCEPT !.state = "errored"]
  /\ runPromise' = IF runPromise = "pending" THEN "rejected" ELSE runPromise
  /\ finishDue' = TRUE
  /\ UNCHANGED <<running, urlsToFiles, urlsToParses, eachFilePromises, bound,
                 runValue, ppcache, gatherMemo, runs, runners, runThrew, gatherLog, storeLog>>
  /\ UNCHANGED notRunnerVars

\* finish (lines 122-126).
Finish ==
  /\ finishDue
  /\ finishDue' = FALSE
  /\ bound' = FALSE
  /\ running' = FALSE
  /\ UNCHANGED <<urlsToFiles, urlsToParses, eachFilePromises, globStream,
                 runPromise, runValue, ppcache, gatherMemo, runs, runners, runThrew,
                 gatherLog, storeLog>>
  /\ UNCHANGED notRunnerVars

\* The stream emits 'end' (lines 142-147) after its last file:
\* Promise.all(this.eachFilePromises) is awaited.
StreamEnd ==
  /\ globStream.state = "open"
  /\ globStream.left = <<>>
  /\ globStream' = [globStream EXCEPT !.state = "ended"]
  /\ UNCHANGED <<running, urlsToFiles, urlsToParses, eachFilePromises, bound,
                 finishDue, runPromise, runValue, ppcache, gatherMemo, runs, runners,
                 runThrew, gatherLog, storeLog>>
  /\ UNCHANGED notRunnerVars

\* Promise.all is rejected by a rejected promise of eachFilePromises: onError
\* (lines 145, 170-172) rejects the promise of run.
AllRejected ==
  /\ globStream.state = "ended"
  /\ runPromise = "pending"
  /\ \E i \in 1..Len(eachFilePromises) : eachFilePromises[i].state = "rejected"
  /\ runPromise' = "rejected"
  /\ UNCHANGED <<running, urlsToFiles, urlsToParses, eachFilePromises, globStream,
                 bound, finishDue, runValue, ppcache, gatherMemo, runs, runners, runThrew,
                 gatherLog, storeLog>>
  /\ UNCHANGED notRunnerVars

\* Promise.all is fulfilled: onDataReady (lines 144, 162-167) runs store on
\* the output data and resolves the promise of run with what it gives.
DataReady ==
  /\ globStream.state = "ended"
  /\ runPromise = "pending"
  /\ \A i \in 1..Len(eachFilePromises) : eachFilePromises[i].state = "fulfilled"
  /\ LET r == MemoRun(ppcache, storeGetKey,
                      storeF(urlsToFiles, urlsToParses))
     IN  /\ ppcache' = r.cache
         /\ runValue' = r.output
         /\ storeLog' = Append(storeLog, [key |-> storeGetKey, invoked |-> r.invoked,
                                         threw |-> FALSE, output |-> r.output,
                                         run |-> runs])
  /\ runPromise' = "resolved"
  /\ UNCHANGED <<running, urlsToFiles, urlsToParses, eachFilePromises, globStream,
                 bound, finishDue, gatherMemo, runs, runners, runThrew, gatherLog>>
  /\ UNCHANGED notRunnerVars

NextRunner ==
  \/ NewRunner
  \/ \E files \in RunnerFiles : Run(files)
  \/ Data
  \/ \E i \in 1..(2 * MaxRuns), k \in DOMAIN PipelineOutputs : GatherRun(i, k)
  \/ \E i \in 1..(2 * MaxRuns) : PipelineFails(i)
  \/ StreamError
  \/ Finish
  \/ StreamEnd
  \/ AllRejected
  \/ DataReady

SpecRunner == InitRunner /\ [][NextRunner]_vars

\* The stream goes on to emit every file it found and then 'end' (unless it
\* emits 'error'), and a reaction of a settled promise is run.
FairSpecRunner ==
  /\ SpecRunner
  /\ WF_vars(Data)
  /\ WF_vars(StreamEnd)
  /\ WF_vars(AllRejected)
  /\ WF_vars(DataReady)
  /\ WF_vars(Finish)

(***************************************************************************)
(* Properties.                                                             *)
(***************************************************************************)
HTTPDone == op = "importHTTP" /\ pc = "done"

\* The number of fragments of the first record for url in list, list holding
\* one.
CountIn(list, url) == Len(FirstByUrl(list, url)[1].parses)

\* Whether list holds a record for url with at least n fragments.
Produced(list, url, n) ==
  /\ FirstByUrl(list, url) # <<>>
  /\ CountIn(list, url) >= n

\* The URLs of the model.
AllURLs == {UrlA, UrlX, UrlB, UrlXh}

\* The elements of a list.
Range(list) == {list[i] : i \in 1..Len(list)}

\* C1 as the spec states it: once importHTTP has completed, every prior record
\* with N fragments whose URL got fewer than N fragments in both passes is in
\* the written dataset unchanged.
C1_PriorEntryRetained ==
  HTTPDone =>
    \A i \in 1..Len(prevData) :
      LET u == prevData[i].url
          n == Len(prevData[i].parses)
      IN  (~Produced(firstPass, u, n) /\ ~Produced(secondPass, u, n))
            => FirstByUrl(pathFile.value, u) = <<prevData[i]>>

\* C1 amended: once importHTTP has written the dataset, for every prior record
\* with N fragments whose URL got fewer than N fragments in both passes, the
\* written records for that URL are the first-pass records for it, and the
\* written entry for the URL is not the prior record.
C1_FirstPassEntryWritten ==
  HTTPDone =>
    \A i \in 1..Len(prevData) :
      LET u == prevData[i].url
          n == Len(prevData[i].parses)
      IN  (~Produced(firstPass, u, n) /\ ~Produced(secondPass, u, n))
            => /\ FilterByUrl(pathFile.value, u) = FilterByUrl(firstPass, u)
               /\ FirstByUrl(pathFile.value, u) # <<prevData[i]>>

\* C1 witness: a written dataset after a prior record's URL got a first-pass
\* record and a second-pass record that both have fewer fragments.
C1_Witness ==
  /\ HTTPDone
  /\ \E i \in 1..Len(prevData) :
       LET u == prevData[i].url
           n == Len(prevData[i].parses)
       IN  /\ FirstByUrl(firstPass, u) # <<>>
           /\ FirstByUrl(secondPass, u) # <<>>
           /\ CountIn(firstPass, u) < n
           /\ CountIn(secondPass, u) < n
           /\ CountIn(secondPass, u) # CountIn(firstPass, u)

\* C2 as the spec states it: once importHTTP has completed, every retry URL
\* whose second-pass count is greater than its first-pass count and at least
\* its prior count has the second-pass record as its written entry.
C2_SecondPassAccepted ==
  HTTPDone =>
    \A u \in Range(retryURLs) :
      ( /\ FirstByUrl(firstPass, u) # <<>>
        /\ FirstByUrl(secondPass, u) # <<>>
        /\ CountIn(secondPass, u) > CountIn(firstPass, u)
        /\ CountIn(secondPass, u) >= CountIn(prevData, u) )
        => FirstByUrl(pathFile.value, u) = FirstByUrl(secondPass, u)

\* C3: once importHTTP has written the dataset, every retry URL whose
\* second-pass count is at most its first-pass count, or is greater than it but
\* below the prior count, has exactly its first-pass records written.
C3_FirstPassKept ==
  HTTPDone =>
    \A u \in Range(retryURLs) :
      ( /\ FirstByUrl(firstPass, u) # <<>>
        /\ FirstByUrl(secondPass, u) # <<>>
        /\ \/ CountIn(secondPass, u) <= CountIn(firstPass, u)
           \/ CountIn(secondPass, u) < CountIn(prevData, u) )
        => FilterByUrl(pathFile.value, u) = FilterByUrl(firstPass, u)

\* C3 witness: a written dataset after a retry URL's second pass gave more
\* fragments than the first pass and fewer than the prior record.
C3_Witness ==
  /\ HTTPDone
  /\ \E u \in Range(retryURLs) :
       /\ FirstByUrl(firstPass, u) # <<>>
       /\ FirstByUrl(secondPass, u) # <<>>
       /\ CountIn(secondPass, u) > CountIn(firstPass, u)
       /\ CountIn(secondPass, u) < CountIn(prevData, u)

\* C4 as the spec states it: when the second pass has settled and the loop
\* finds no second datum for some retry URL (line 346), importHTTP keeps the
\* existing entries, still writes the dataset and resolves.
C4_BatchDoesNotFail ==
  ( /\ op = "importHTTP"
    /\ pc \in {"done", "rejected"}
    /\ \E u \in Range(retryURLs) :
         secondDatum(SortByUrl(firstPass), secondPass, u) = <<>> )
    => /\ pc = "done"
       /\ pathFile = stringify(SortByUrl(firstPass))

\* The URLs the retry rule of the spec marks: those of the prior records that
\* have no first-pass record while holding a fragment, or whose first-pass
\* record (the first one for the URL in the sorted first-pass data) has fewer
\* fragments than the prior record.
MarkedByRule ==
  { u \in AllURLs :
      \E i \in 1..Len(prevData) :
        /\ prevData[i].url = u
        /\ \/ /\ FirstByUrl(firstPass, u) = <<>>
              /\ Len(prevData[i].parses) >= 1
           \/ /\ FirstByUrl(firstPass, u) # <<>>
              /\ CountIn(firstPass, u) < Len(prevData[i].parses) }

\* C5: once the first pass has been compared with the prior dataset, the URLs
\* marked for retry are exactly those the retry rule marks.
C5_RetryMarking ==
  (op = "importHTTP" /\ pc \in {"pass2", "done", "rejected"})
    => Range(retryURLs) = MarkedByRule

\* C5 witness: one prior URL is marked for having a first-pass record with
\* fewer fragments, and another prior URL, whose first-pass record has as many
\* fragments as its prior record, is left unmarked.
C5_Witness ==
  /\ op = "importHTTP"
  /\ pc = "pass2"
  /\ \E u \in Range(retryURLs) : FirstByUrl(firstPass, u) # <<>>
  /\ \E i \in 1..Len(prevData) :
       /\ prevData[i].url \notin Range(retryURLs)
       /\ Len(prevData[i].parses) >= 1
       /\ FirstByUrl(firstPass, prevData[i].url) # <<>>

\* C6: when the second pass starts, neither cache directory holds a file for
\* any retry URL, and no second-pass job's result is read from a cache file
\* written before the second pass.
C6_CachesClearedBeforeRetry ==
  (op = "importHTTP" /\ pc = "pass2") =>
    /\ settled = {} =>
         \A u \in Range(retryURLs) :
           /\ urlCacheDir[getCacheFileName(u)] = NoFile
           /\ idlCacheDir[getCacheFileName(u)] = NoFile
    /\ \A i \in settled : served[i] = 2

\* C6 witness: a second-pass job has settled with fragments for a retry URL
\* whose first-pass record had fragments, so that a parse record for it was
\* cached when the first pass ended.
C6_Witness ==
  /\ op = "importHTTP"
  /\ pc = "pass2"
  /\ \E i \in settled :
       /\ jobUrls[i] \in Range(retryURLs)
       /\ FirstByUrl(allData, jobUrls[i]) # <<>>
       /\ CountIn(allData, jobUrls[i]) >= 1
       /\ Len(results[i].parses) >= 1

\* C7: the second pass scrapes only URLs marked for retry, and once the
\* dataset is written the records of every URL that was not marked are its
\* first-pass records.
C7_SecondPassOnlyRetries ==
  /\ (op = "importHTTP" /\ pc = "pass2") => Range(jobUrls) \subseteq Range(retryURLs)
  /\ HTTPDone =>
       \A u \in AllURLs \ Range(retryURLs) :
         FilterByUrl(pathFile.value, u) = FilterByUrl(firstPass, u)

\* C7 witness: a written dataset after a second pass that retried one of two
\* first-pass URLs.
C7_Witness ==
  /\ HTTPDone
  /\ retryURLs # <<>>
  /\ \E u \in Range(urls) \ Range(retryURLs) : FirstByUrl(pathFile.value, u) # <<>>

\* C8 as the spec states it: a written dataset holds at most one record per
\* URL.
C8_OneRecordPerURL ==
  pc = "done" =>
    \A i, j \in 1..Len(pathFile.value) :
      pathFile.value[i].url = pathFile.value[j].url => i = j

\* C9 as the spec states it: a written dataset is sorted by URL.
C9_SortedByURL ==
  pc = "done" =>
    \A i, j \in 1..Len(pathFile.value) :
      i < j => ~StrLess(pathFile.value[j].url, pathFile.value[i].url)

\* C10: in every step in which a job's fetch is rejected or its parse throws,
\* the job resolves with {url, parses: []} for its own URL, the record of every
\* other job is left as it was, and the call goes on (it neither throws nor
\* rejects).
C10_FailureDegradesToEmptyRecord ==
  [][ \A i \in failedJobs' \ failedJobs :
        /\ results'[i] = Rec(jobUrls[i], <<>>)
        /\ \A j \in (1..Len(jobUrls)) \ {i} : results'[j] = results[j]
        /\ jobUrls' = jobUrls
        /\ pc' = pc ]_vars

\* C10 witness: a job has failed while the parse-record cache held a record
\* under its URL's file name, and another job of the pass has a record with
\* fragments.
C10_Witness ==
  /\ pc \in {"pass1", "pass2", "loading"}
  /\ \E i \in failedJobs :
       /\ idlCacheDir[getCacheFileName(jobUrls[i])].kind = "json"
       /\ \E j \in settled \ failedJobs : Len(results[j].parses) >= 1

\* Whether every character of t is a slash.
AllSlashes(t) == \A i \in 1..Len(t) : t[i] = "/"

\* Whether s is r followed by trailing slashes, every form in between being
\* among rests: r and s are joined by steps of one trailing slash.
SlashChain(r, s, rests) ==
  /\ Len(r) <= Len(s)
  /\ SubSeq(s, 1, Len(r)) = r
  /\ AllSlashes(Drop(s, Len(r)))
  /\ \A k \in Len(r)..Len(s) : SubSeq(s, 1, k) \in rests

\* Whether URLs u and v differ only by scheme or by trailing slashes seen in
\* list.
SameButSchemeOrSlash(u, v, list) ==
  LET rests == {MatchURL(list[i]).rest : i \in 1..Len(list)}
  IN  \/ SlashChain(MatchURL(u).rest, MatchURL(v).rest, rests)
      \/ SlashChain(MatchURL(v).rest, MatchURL(u).rest, rests)

\* Whether no element occurs twice in list.
NoDuplicates(list) == \A i, j \in 1..Len(list) : list[i] = list[j] => i = j

\* C11: the list getUniqueURLs returns has no duplicates, and for the input
\* URLs that differ from an input URL only by scheme or by a trailing slash it
\* holds exactly one URL: slash-terminated when a slash-terminated form was
\* among them, with scheme https when https was among them.
C11_OneURLPerFamily ==
  (uqPc # "input" /\ ~uqRet.threw) =>
    /\ NoDuplicates(uqRet.urls)
    /\ \A u \in Range(uqArg) :
         LET family == {v \in Range(uqArg) : SameButSchemeOrSlash(u, v, uqArg)}
             outs == {w \in Range(uqRet.urls) : SameButSchemeOrSlash(u, w, uqArg)}
         IN  /\ Cardinality(outs) = 1
             /\ \A w \in outs :
                  /\ (\E v \in family : MatchURL(v).rest # MatchURL(u).rest)
                       => MatchURL(w).rest[Len(MatchURL(w).rest)] = "/"
                  /\ MatchURL(w).scheme = Https
                       <=> \E v \in family : MatchURL(v).scheme = Https

\* C12: applying getUniqueURLs to the list it returned for well-formed raw
\* URLs gives the same set of URLs.
C12_Idempotent ==
  uqPc = "twice" =>
    /\ ~uqAgain.threw
    /\ Range(uqAgain.urls) = Range(uqRet.urls)

\* getUniqueURLs merged URLs of the input, kept two apart, and was applied
\* again.
C12_Witness ==
  /\ uqPc = "twice"
  /\ Len(uqRet.urls) = 2
  /\ Len(uqArg) = 3
  /\ NoDuplicates(uqArg)


\* C13 as the spec states it: a file stored in a cache for URL u is what a
\* lookup of u finds until clearCache(u) is called, and right after
\* clearCache(u) a lookup of u finds nothing in either directory.
C13_CacheRoundTrip ==
  /\ \A u \in StoreURLs :
       /\ stored[u].raw # NoFile => urlCacheDir[getCacheFileName(u)] = stored[u].raw
       /\ stored[u].idl # NoFile => idlCacheDir[getCacheFileName(u)] = stored[u].idl
  /\ (pc = "pass2" /\ settled = {}) =>
       \A k \in 1..Len(retryURLs) :
         /\ urlCacheDir[getCacheFileName(retryURLs[k])] = NoFile
         /\ idlCacheDir[getCacheFileName(retryURLs[k])] = NoFile

\* C14 as the spec states it: a job whose URL had a parse record in the
\* parse-record cache when it ran resolved with that record, and no fetch of
\* raw content (pool scrape or HTTP request) was issued for it.
C14_FastPath ==
  \A i \in settled :
    acq[i].hit =>
      /\ results[i] = idlCacheDir[getCacheFileName(jobUrls[i])].value
      /\ ~acq[i].fetch

\* The fragments a fresh parse extracts for job i: those of the raw content
\* the job obtained.
FreshParses(i) == ParseLoop(acq[i].data.v, <<>>)

\* A step in which a job that obtained content and found no cached parse
\* record settles: with at least one fragment in the content the job resolves
\* with {url, parses} and the parse-record cache holds that record under the
\* URL's file name; with none the job fails and the parse-record directory is
\* left as it was.
C15_ParseStep ==
  \A i \in settled' \ settled :
    (acq'[i].ok /\ ~acq'[i].hit) =>
      IF Len(FreshParses(i)') >= 1
        THEN /\ i \notin failedJobs'
             /\ results'[i] = Rec(jobUrls[i], FreshParses(i)')
             /\ idlCacheDir'[getCacheFileName(jobUrls[i])] = stringify(results'[i])
      ELSE /\ i \in failedJobs'
           /\ idlCacheDir' = idlCacheDir

\* C15: parse writes {url, parses} to the parse-record cache and returns it
\* exactly when the content gave at least one fragment; with zero fragments
\* it throws and writes nothing; no parse record in the cache ever has an
\* empty parses list.
C15_ParsePersistsNonEmpty ==
  /\ [](\A n \in CacheNames :
         idlCacheDir[n].kind = "json" => Len(idlCacheDir[n].value.parses) >= 1)
  /\ [][C15_ParseStep]_vars

\* One job parsed its content to at least one fragment, and another obtained
\* content that gave none.
C15_Witness ==
  \E i, j \in settled :
    /\ acq[i].ok /\ ~acq[i].hit /\ Len(FreshParses(i)) >= 1
    /\ acq[j].ok /\ ~acq[j].hit /\ Len(FreshParses(j)) = 0

\* C16: no ScraperManager of importHTTP has destroy() called more than once,
\* called with a scrape job in flight, or a scrape issued after it; the first
\* manager is destroyed once the first pass is over, and both managers are
\* when the call is over.
C16_ManagerDestroyedOnce ==
  /\ \A k \in 1..Len(mgr) :
       /\ mgr[k].destroys <= 1
       /\ ~mgr[k].early
       /\ ~mgr[k].late
       /\ mgr[k].destroys = 1 => mgr[k].pending = 0
  /\ (op = "importHTTP" /\ pc = "pass1") =>
       (Len(mgr) = 1 /\ mgr[1].destroys = 0)
  /\ (op = "importHTTP" /\ pc = "pass2") =>
       (Len(mgr) = 2 /\ mgr[1].destroys = 1 /\ mgr[2].destroys = 0)
  /\ (op = "importHTTP" /\ pc \in {"done", "rejected"}) =>
       (Len(mgr) = 2 /\ mgr[1].destroys = 1 /\ mgr[2].destroys = 1)

\* importHTTP is over after a first pass of two scrapes and a second pass of
\* at least one.
C16_Witness ==
  /\ op = "importHTTP"
  /\ pc \in {"done", "rejected"}
  /\ Len(firstPass) = 2
  /\ Len(secondPass) >= 1

\* C20: when the dataset file was missing or not valid JSON before
\* importHTTP, no URL is marked for retry, the call is not rejected and it
\* writes the sorted first-pass data; when the parse-record file of a job's
\* URL was missing or not valid JSON and the job obtained content, the job
\* resolved with the fresh parse of that content (the empty record when it
\* gave no fragment), and a record with fragments replaced the file.
C20_InvalidFilesAreNoData ==
  /\ (op = "importHTTP" /\ prior.pathFile.kind # "json"
        /\ pc \in {"pass2", "done", "rejected"}) =>
       /\ prevData = <<>>
       /\ retryURLs = <<>>
       /\ jobUrls = <<>>
       /\ pc # "rejected"
       /\ pc = "done" => pathFile = stringify(SortByUrl(firstPass))
  /\ pc \in {"pass1", "loading"} =>
       \A i \in settled :
         (prior.idlCacheDir[getCacheFileName(jobUrls[i])].kind # "json"
            /\ acq[i].ok /\ ~acq[i].hit) =>
           /\ results[i] = Rec(jobUrls[i], FreshParses(i))
           /\ Len(FreshParses(i)) >= 1 =>
                idlCacheDir[getCacheFileName(jobUrls[i])] = stringify(results[i])

\* importHTTP is over, having found a dataset file and a parse-record file
\* that were not valid JSON, and has written a record with fragments for the
\* URL of that parse-record file.
C20_Witness ==
  /\ op = "importHTTP"
  /\ pc = "done"
  /\ prior.pathFile = Garbage
  /\ prior.idlCacheDir[getCacheFileName(UrlX)] = Garbage
  /\ pathFile.kind = "json"
  /\ \E k \in 1..Len(pathFile.value) :
       pathFile.value[k].url = UrlX /\ Len(pathFile.value[k].parses) >= 1

\* C18: the scrapes of one ScraperManager that hold a worker are never more
\* than numInstances, however many importHTTP issued at once; every other
\* scrape issued is waiting or has settled.
C18_BoundedInFlight ==
  /\ pool.busy <= numInstances
  /\ pool.busy + pool.dead <= numInstances
  /\ pool.waiting + pool.busy + pool.settled = pool.issued

\* More scrapes were issued than the manager has workers: every worker is
\* busy and scrapes are waiting.
C18_Witness ==
  /\ pool.issued > numInstances
  /\ pool.busy = numInstances
  /\ pool.waiting > 0

\* Whether a run of the log had an earlier run with its key that came back
\* with an output.
HeldBefore(log, j) ==
  \E i \in 1..(j - 1) : log[i].key = log[j].key /\ ~log[i].threw

\* Whether, of the runs of a node, those whose key an earlier run had come
\* back with did not invoke the function, and every other run did.
OncePerKey(log) ==
  \A j \in 1..Len(log) : log[j].invoked <=> ~HeldBefore(log, j)

\* Whether every run of store whose key an earlier run had gave the output of
\* that earlier run.
StoredOutputReturned ==
  \A i, j \in 1..Len(storeLog) :
    (i < j /\ storeLog[i].key = storeLog[j].key) =>
      storeLog[j].output = storeLog[i].output

MalformedInRun ==
  \E i \in 1..Len(eachFilePromises) :
    /\ eachFilePromises[i].error = "Malformed memo output"
    /\ eachFilePromises[i].run = runs

\* A step in which gather throws 'Malformed memo output' leaves urlsToFiles
\* and urlsToParses as they were, and once gather has thrown it in a run, the
\* promise of that run is not resolved and store has not run in that run.
C19_GatherThrowStep ==
  /\ \A i \in 1..Len(eachFilePromises) :
       (/\ i <= Len(eachFilePromises')
        /\ eachFilePromises[i].state = "pending"
        /\ eachFilePromises'[i].error = "Malformed memo output") =>
         (urlsToFiles' = urlsToFiles /\ urlsToParses' = urlsToParses)
  /\ MalformedInRun' =>
       /\ runPromise' # "resolved"
       /\ \A k \in 1..Len(storeLog') : storeLog'[k].run # runs'

\* C19: a step in which gather throws 'Malformed memo output' leaves
\* urlsToFiles and urlsToParses as they were; once gather has thrown it in a
\* run, the promise of that run is never resolved and store is not run in
\* that run; and the promise of that run, when pending, comes to be rejected.
C19_MalformedOutputRejects ==
  /\ [][C19_GatherThrowStep]_vars
  /\ (MalformedInRun /\ runPromise = "pending") ~> (runPromise = "rejected")

\* After one file was gathered and the output of another could not be
\* aligned, the stream has ended and the promise of run is rejected, store
\* not having run.
C19_Witness ==
  /\ globStream.state = "ended"
  /\ runPromise = "rejected"
  /\ urlsToFiles # <<>>
  /\ storeLog = <<>>
  /\ \E i \in 1..Len(eachFilePromises) :
       /\ eachFilePromises[i].error = "Malformed memo output"
       /\ eachFilePromises[i].run = runs

\* Whether the promise returned by run() has settled.
RunSettled == runPromise \in {"resolved", "rejected"}

\* C21: whenever the promise returned by run() has settled and no call of
\* finish is outstanding, the pipeline binding has been unbound and running is
\* false, so that a later run() on the runner is accepted.
C21_SettledRunIsFinished ==
  (RunSettled /\ ~finishDue) => (~running /\ ~bound)

\* C22 as the spec states it: the record a job resolved with has the URL of
\* the job.
C22_RecordHasOwnURL ==
  \A i \in settled : results[i].url = jobUrls[i]

\* The lists that hold the elements of list in another order.
Reorderings(list) ==
  { [i \in 1..Len(list) |-> list[f[i]]] :
      f \in {g \in [1..Len(list) -> 1..Len(list)] :
               \A i, j \in 1..Len(list) : g[i] = g[j] => i = j} }

\* C23 as the spec states it: getUniqueURLs returns the same set of URLs for
\* every order of the raw URLs of its input.
C23_OrderIndependent ==
  (uqPc # "input" /\ ~uqRet.threw) =>
    \A p \in Reorderings(uqArg) :
      /\ ~getUniqueURLs(p).threw
      /\ Range(getUniqueURLs(p).urls) = Range(uqRet.urls)

\* C24 as the spec states it: the dataset a run resolved with is the one built
\* from the output data gathered in that run, one {url, files, parses} per
\* gathered URL.
C24_ResolvesWithOwnDataset ==
  runPromise = "resolved" => runValue = storeF(urlsToFiles, urlsToParses)

====
